---- MODULE Spec2Model ----
(***************************************************************************)
(* Model of the setup-vault example scripts.                               *)
(*                                                                         *)
(*  - mongo-relationships/Models/costumer.js : Order / Customer            *)
(*    collections, ItemData, CustomerData, findData (populate).            *)
(*  - mongo-with-express/index.js, models/chat.js and the seed script :   *)
(*    the chat server's routes over the Chat collection.                   *)
(*  - Middleware/index.js and the Express guide's server : middleware      *)
(*    stack and route matching.                                            *)
(*  - main() of each script : the store connection.                        *)
(*  - the query script : the User model and queryManager.                  *)
(*  - mongo-relationships/Models/posts.js : addUser / addPost.             *)
(*                                                                         *)
(* The document store is modelled as sequences of documents in natural     *)
(* (insertion) order; an ObjectId is a positive integer that is never      *)
(* reused; a JavaScript null identifier is Null.                           *)
(***************************************************************************)
EXTENDS Integers, Sequences, FiniteSets, TLC

\* ------------------------------------------------------------------ bounds
\* number of calls / external deletions recorded before the relationship
\* script stops being driven
MaxTrace == 6
\* number of ItemData invocations
MaxItemData == 2

\* ------------------------------------------------------- generic helpers
Null == 0

Min(S) == CHOOSE x \in S : \A y \in S : x <= y

IsPrefix(s, t) == Len(s) <= Len(t) /\ \A i \in 1..Len(s) : t[i] = s[i]

Ids(coll) == {coll[i]._id : i \in DOMAIN coll}

\* Model.findById / lookup by _id: <<>> (null) or <<doc>>
findById(coll, id) ==
    LET idx == {i \in DOMAIN coll : coll[i]._id = id}
    IN  IF idx = {} THEN <<>> ELSE <<coll[Min(idx)]>>

\* a delete that takes id for a position in the collection
deleteById_index(coll, id) ==
    LET keep == SelectSeq([i \in DOMAIN coll |-> i], LAMBDA i : i # id)
    IN  [k \in DOMAIN keep |-> coll[keep[k]]]

\* deleteOne({_id: id}) / findByIdAndDelete(id)
deleteById(coll, id) == SelectSeq(coll, LAMBDA d : d._id # id)

\* ============================================================ costumer.js
VARIABLES
    orders,      \* the Order collection: Seq of [_id, item, price]
    customers,   \* the Customer collection: Seq of [_id, name, orders]
    nextId,      \* next ObjectId the relationship script generates
    cd,          \* the CustomerData invocation in flight
    fd,          \* the findData invocation in flight / its outcome
    trace        \* calls, returns and external deletions, in order

relVars == <<orders, customers, nextId, cd, fd, trace>>

\* state of the chat server (mongo-with-express), described further below
VARIABLES
    chats,       \* the Chat collection: Seq of [_id, from, to, message, date]
    chatNextId,  \* next ObjectId generated for a Chat
    pending,     \* documents whose save() was started and has not settled
    last,        \* the request handled last and the response it got
    deletedIds,  \* ids of the chats DELETE /chats/:id has removed
    reqCount,    \* requests handled so far (also the clock of new Date())
    seeds        \* runs of the seed script so far

chatVars == <<chats, chatNextId, pending, last, deletedIds, reqCount, seeds>>

\* state of the middleware demo server (Middleware/index.js)
VARIABLES
    mw,          \* the request in flight: its inputs, position in the stack,
                 \* req.time, the handlers that ran, the responses sent
    mwClock      \* requests received so far (the clock of Date.now())

mwVars == <<mw, mwClock>>

\* the store connection each script opens through main()
VARIABLES
    conn         \* per script: the connect() promise, the promise main()
                 \* returned, the console, an unhandled rejection if any

connVars == <<conn>>

\* state of the query script (the User model and queryManager)
VARIABLES
    users,       \* the User collection: Seq of [_id, name, email, age]
    idArg,       \* the id literal passed to findById / findByIdAndUpdate
    issued,      \* how many of the script's store calls have been made
    promise,     \* per store call: "none", "pending", "fulfilled", "rejected"
    out          \* per store call: what queryManager logged for it

userVars == <<users, idArg, issued, promise, out>>

\* state of the routing demo server (the Express guide's server)
VARIABLES
    demo         \* the request in flight: its inputs, the handler that ran,
                 \* the responses sent

demoVars == <<demo>>

\* state of posts.js (User / Post collections, addUser, addPost)
VARIABLES
    pUsers,      \* the User collection: Seq of [_id, username, email]
    pPosts,      \* the Post collection: Seq of [_id, content, likes, user]
    pNextId,     \* next ObjectId posts.js generates
    au,          \* the addUser invocation in flight
    ap,          \* the addPost invocation in flight
    pRuns        \* runs of posts.js so far

postVars == <<pUsers, pPosts, pNextId, au, ap, pRuns>>

vars == <<orders, customers, nextId, cd, fd, trace,
          chats, chatNextId, pending, last, deletedIds, reqCount, seeds,
          mw, mwClock, conn,
          users, idArg, issued, promise, out,
          demo, pUsers, pPosts, pNextId, au, ap, pRuns>>

\* what the steps of one program leave alone
notRel == <<chatVars, mwVars, connVars, userVars, demoVars, postVars>>
notChat == <<relVars, mwVars, connVars, userVars, demoVars, postVars>>
notMw == <<relVars, chatVars, connVars, userVars, demoVars, postVars>>
notConn == <<relVars, chatVars, mwVars, userVars, demoVars, postVars>>
notUser == <<relVars, chatVars, mwVars, connVars, demoVars, postVars>>
notDemo == <<relVars, chatVars, mwVars, connVars, userVars, postVars>>
notPost == <<relVars, chatVars, mwVars, connVars, userVars, demoVars>>

ItemDocs ==
    << [item |-> "Samosa", price |-> 15],
       [item |-> "Coke",   price |-> 40],
       [item |-> "Dosa",   price |-> 30] >>

\* an insertMany that replaces the collection by the new documents
insertManyOrders_replace(coll, docs, id0) ==
    [i \in 1..Len(docs) |->
        [_id |-> id0 + i - 1, item |-> docs[i].item, price |-> docs[i].price]]

\* Order.insertMany(docs): appends the documents, each with a fresh _id
insertManyOrders(coll, docs, id0) ==
    coll \o [i \in 1..Len(docs) |->
                [_id |-> id0 + i - 1, item |-> docs[i].item, price |-> docs[i].price]]

\* Order.findOne({item: it}): the first match in natural order, or null
findOneByItem(coll, it) ==
    LET idx == {i \in DOMAIN coll : coll[i].item = it}
    IN  IF idx = {} THEN <<>> ELSE <<coll[Min(idx)]>>

\* Customer.findOne(): the first Customer in natural order, or null
findOneCustomer(coll) == IF coll = <<>> THEN <<>> ELSE <<coll[1]>>

\* casting an Order document (or null) into an ObjectId array slot
castRef(opt) == IF opt = <<>> THEN Null ELSE opt[1]._id

\* new Customer({name, orders: [item2, item1]}): the two references swapped
newCustomer_swapped(id, item1, item2) ==
    [_id |-> id, name |-> "Anuj Gupta", orders |-> <<castRef(item2), castRef(item1)>>]

\* new Customer({name, orders: [item1, item2]})
newCustomer(id, item1, item2) ==
    [_id |-> id, name |-> "Anuj Gupta", orders |-> <<castRef(item1), castRef(item2)>>]

\* a populate that returns the whole Order collection, whatever the references
populate_all(refs, coll) == coll

\* a populate that gives up at the first reference that matches no Order
RECURSIVE populate_abort(_, _)
populate_abort(refs, coll) ==
    IF refs = <<>> THEN <<>>
    ELSE IF findById(coll, Head(refs)) = <<>> THEN <<>>
    ELSE findById(coll, Head(refs)) \o populate_abort(Tail(refs), coll)

\* .populate("orders"): every stored identifier is replaced by the Order it
\* identifies, in the order of the stored array; identifiers that match no
\* Order (and null slots) are left out of the result
RECURSIVE populate(_, _)
populate(refs, coll) ==
    IF refs = <<>> THEN <<>>
    ELSE findById(coll, Head(refs)) \o populate(Tail(refs), coll)

Ev(op, arg) == [op |-> op, arg |-> arg]

Count(op) == Cardinality({i \in DOMAIN trace : trace[i].op = op})

CdIdle == [pc |-> "idle", item1 |-> <<>>, item2 |-> <<>>]
FdIdle == [pc |-> "idle", customer |-> <<>>, result |-> <<>>]

RelInit ==
    /\ orders = <<>>
    /\ customers = <<>>
    /\ nextId = 1
    /\ cd = CdIdle
    /\ fd = FdIdle
    /\ trace = <<>>

\* ItemData(): await Order.insertMany([...]); console.log(result)
ItemData ==
    /\ Len(trace) < MaxTrace
    /\ Count("ItemData") < MaxItemData
    /\ orders' = insertManyOrders(orders, ItemDocs, nextId)
    /\ nextId' = nextId + Len(ItemDocs)
    /\ trace' = Append(trace, Ev("ItemData", nextId))
    /\ UNCHANGED <<customers, cd, fd>>
    /\ UNCHANGED notRel

\* CustomerData(), up to the first await: item1 = Order.findOne({item:"Samosa"})
CustomerDataFind1 ==
    /\ cd.pc \in {"idle", "done"}
    /\ Len(trace) < MaxTrace
    /\ cd' = [pc |-> "find2", item1 |-> findOneByItem(orders, "Samosa"), item2 |-> <<>>]
    /\ trace' = Append(trace, Ev("CustomerData", Null))
    /\ UNCHANGED <<orders, customers, nextId, fd>>
    /\ UNCHANGED notRel

\* item2 = await Order.findOne({item: "Dosa"})
CustomerDataFind2 ==
    /\ cd.pc = "find2"
    /\ cd' = [cd EXCEPT !.pc = "save", !.item2 = findOneByItem(orders, "Dosa")]
    /\ UNCHANGED <<orders, customers, nextId, fd, trace>>
    /\ UNCHANGED notRel

\* customer = new Customer({...}); result = await customer.save(); console.log(result)
CustomerDataSave ==
    /\ cd.pc = "save"
    /\ customers' = Append(customers, newCustomer(nextId, cd.item1, cd.item2))
    /\ nextId' = nextId + 1
    /\ cd' = [cd EXCEPT !.pc = "done"]
    /\ trace' = Append(trace, Ev("CustomerData.ret", nextId))
    /\ UNCHANGED <<orders, fd>>
    /\ UNCHANGED notRel

\* findData(), first read: Customer.findOne()
FindDataCustomer ==
    /\ fd.pc \in {"idle", "ok", "threw"}
    /\ Len(trace) < MaxTrace
    /\ fd' = [pc |-> "populate", customer |-> findOneCustomer(customers), result |-> <<>>]
    /\ trace' = Append(trace, Ev("findData", Null))
    /\ UNCHANGED <<orders, customers, nextId, cd>>
    /\ UNCHANGED notRel

\* a findData whose populate rejects when a reference matches no Order
FindDataPopulate_strict ==
    /\ fd.pc = "populate"
    /\ IF fd.customer = <<>>
          \/ \E i \in DOMAIN fd.customer[1].orders :
                 fd.customer[1].orders[i] \notin Ids(orders)
       THEN fd' = [fd EXCEPT !.pc = "threw"]
       ELSE fd' = [fd EXCEPT !.pc = "ok",
                             !.result = populate(fd.customer[1].orders, orders)]
    /\ trace' = Append(trace, Ev("findData.ret", Null))
    /\ UNCHANGED <<orders, customers, nextId, cd>>
    /\ UNCHANGED notRel

\* findData(), second read and the rest: .populate("orders") on the Customer
\* read before, then console.log(result.orders); with no Customer the result
\* is null and result.orders throws
FindDataPopulate ==
    /\ fd.pc = "populate"
    /\ IF fd.customer = <<>>
       THEN fd' = [fd EXCEPT !.pc = "threw"]
       ELSE fd' = [fd EXCEPT !.pc = "ok",
                             !.result = populate(fd.customer[1].orders, orders)]
    /\ trace' = Append(trace, Ev("findData.ret", Null))
    /\ UNCHANGED <<orders, customers, nextId, cd>>
    /\ UNCHANGED notRel

\* another client of the store deletes one Order (the script itself has no
\* delete path)
DeleteOrder ==
    /\ Len(trace) < MaxTrace
    /\ \E id \in Ids(orders) :
          /\ orders' = deleteById(orders, id)
          /\ trace' = Append(trace, Ev("deleteOrder", id))
    /\ UNCHANGED <<customers, nextId, cd, fd>>
    /\ UNCHANGED notRel

ScriptStep ==
    \/ ItemData
    \/ CustomerDataFind1
    \/ CustomerDataFind2
    \/ CustomerDataSave
    \/ FindDataCustomer
    \/ FindDataPopulate

RelNext ==
    \/ ItemData
    \/ CustomerDataFind1
    \/ CustomerDataFind2
    \/ CustomerDataSave
    \/ FindDataCustomer
    \/ FindDataPopulate
    \/ DeleteOrder


\* ===================================== mongo-with-express (the chat server)
\* number of HTTP requests handled
MaxRequests == 2
\* request ids range over 1..MaxReqId
MaxReqId == 3
\* number of runs of the seed script
MaxSeeds == 1

\* chatSchema.message.maxLength
MaxLength == 50


\* An optional text field is <<>> (undefined) or <<text>>.
Msg51 == "123456789012345678901234567890123456789012345678901"

\* the documents of the seed script
SeedDocs ==
    <<
       [from |-> <<"User1">>, to |-> <<"User2">>, message |-> <<"Hello chai!!">>],
       [from |-> <<"User3">>, to |-> <<"User4">>, message |-> <<"Oyy sun chal free hai toh kahi jaakar aate hai">>],
       [from |-> <<"User2">>, to |-> <<"User6">>, message |-> <<"Ayien!! Baigan.">>],
       [from |-> <<"User4">>, to |-> <<"User7">>, message |-> <<"Berlin died in money hiest S1">>],
       [from |-> <<"User5">>, to |-> <<"User3">>, message |-> <<"Free Palestine!!">>],
       [from |-> <<"User8">>, to |-> <<"User1">>, message |-> <<"All eyes on Ukraine">>],
       [from |-> <<"User5">>, to |-> <<"User1">>, message |-> <<"Once Putin said, Trump was a genius.">>],
       [from |-> <<"User3">>, to |-> <<"User8">>, message |-> <<"Modi hai toh munkin hai.">>],
       [from |-> <<"User7">>, to |-> <<"User8">>, message |-> <<"Pakisthan destroyed Rajasthan port">>],
       [from |-> <<"User4">>, to |-> <<"User3">>, message |-> <<"Heyy !! Give me some notes too.. ">>],
       [from |-> <<"User2">>, to |-> <<"User1">>, message |-> <<"Nahh , I'd never fell for something like that">>]
    >>

\* request bodies of the new-chat form (each field may be missing) and of
\* the edit form (which always sends message)
FromValues == {<<>>, <<"User1">>}
ToValues == {<<>>, <<"User2">>}
MessageValues == {<<>>, <<"hi">>, <<Msg51>>}
PatchMessages == {"hi", "bye", Msg51}
ReqIds == 1..MaxReqId

\* The segment after /chats/ in a request path: the hex string of ObjectId n
\* is written n; "new" and "abc" are text that is no ObjectId.
SegNew == -1
SegText == -2
Segments == ReqIds \cup {SegNew, SegText}

\* casting req.params.id to an ObjectId succeeds (otherwise the store call
\* rejects with a CastError)
isObjectId(seg) == seg >= 1

\* a route table with /chats/:id registered before /chats/new
chatGetRoute_idFirst(seg) == "/chats/:id"

\* the route of GET /chats/<seg>: app.get("/chats/new") is registered before
\* app.get("/chats/:id"), and the first route that matches handles the request
chatGetRoute(seg) == IF seg = SegNew THEN "/chats/new" ELSE "/chats/:id"

\* required: true on a String path: undefined and "" both fail
required(opt) == opt # <<>> /\ opt[1] # ""

\* maxLength: 50 on message (an undefined message is not validated)
maxLengthOk(opt) == opt = <<>> \/ Len(opt[1]) <= MaxLength

\* a schema whose from and to are not required
validate_noRequired(doc) == maxLengthOk(doc.message)

\* document validation against chatSchema, as run by save() and insertMany()
validate(doc) == required(doc.from) /\ required(doc.to) /\ maxLengthOk(doc.message)

\* new Chat({from, message, to, date})
newChat(id, from, to, message, date) ==
    [_id |-> id, from |-> from, to |-> to, message |-> message, date |-> date]

\* Chat.insertMany(docs): every document is validated first; one invalid
\* document rejects the call and nothing is inserted
insertManyChats(coll, docs, id0, date) ==
    LET built == [i \in 1..Len(docs) |->
                    newChat(id0 + i - 1, docs[i].from, docs[i].to, docs[i].message, date)]
    IN  IF \A i \in DOMAIN built : validate(built[i]) THEN coll \o built ELSE coll

\* an update that replaces the chat by the update document
findByIdAndUpdate_overwrite(coll, id, message) ==
    [i \in DOMAIN coll |->
        IF coll[i]._id = id
        THEN newChat(id, <<>>, <<>>, <<message>>, Null)
        ELSE coll[i]]

\* an update that changes the first chat of the collection, whatever the id
findByIdAndUpdate_first(coll, id, message) ==
    [i \in DOMAIN coll |->
        IF i = 1 THEN [coll[i] EXCEPT !.message = <<message>>] ELSE coll[i]]

\* Chat.findByIdAndUpdate(id, {message}, {new: true}): sets message on the
\* chat with that id; update validators are off unless runValidators is set
findByIdAndUpdate(coll, id, message) ==
    [i \in DOMAIN coll |->
        IF coll[i]._id = id THEN [coll[i] EXCEPT !.message = <<message>>] ELSE coll[i]]

\* one handled request (method, route, :id, body.message) and its response
\* (redirect or render, the target or view, the documents handed to the view,
\* returned by the awaited store call or, for POST, built by the handler);
\* status "none": the handler ended without sending a response
Resp(method, route, id, body, status, view, data) ==
    [method |-> method, route |-> route, id |-> id, body |-> body,
     status |-> status, view |-> view, data |-> data]

NoRequest == Resp("", "", Null, <<>>, "", "", <<>>)

\* the awaited store call rejected: the async handler has no try/catch and
\* its rejection reaches no error handler, so nothing is sent to the client
Unanswered(method, route, id, body) == Resp(method, route, id, body, "none", "", <<>>)

ChatInit ==
    /\ chats = <<>>
    /\ chatNextId = 1
    /\ pending = {}
    /\ last = NoRequest
    /\ deletedIds = {}
    /\ reqCount = 0
    /\ seeds = 0

\* the seed script: Chat.insertMany([...]) with date: new Date()
SeedInsert ==
    /\ seeds < MaxSeeds
    /\ seeds' = seeds + 1
    /\ chats' = insertManyChats(chats, SeedDocs, chatNextId, reqCount)
    /\ chatNextId' = chatNextId + Len(SeedDocs)
    /\ UNCHANGED <<pending, last, deletedIds, reqCount>>
    /\ UNCHANGED notChat

\* app.get("/chats"): chats = await Chat.find(); res.render("index.ejs", {chats})
GetChats ==
    /\ reqCount < MaxRequests
    /\ reqCount' = reqCount + 1
    /\ last' = Resp("GET", "/chats", Null, <<>>, "render", "index.ejs", chats)
    /\ UNCHANGED <<chats, chatNextId, pending, deletedIds, seeds>>
    /\ UNCHANGED notChat

\* app.get("/chats/new"): res.render("new.ejs")
GetChatsNew ==
    /\ reqCount < MaxRequests
    /\ chatGetRoute(SegNew) = "/chats/new"
    /\ reqCount' = reqCount + 1
    /\ last' = Resp("GET", "/chats/new", SegNew, <<>>, "render", "new.ejs", <<>>)
    /\ UNCHANGED <<chats, chatNextId, pending, deletedIds, seeds>>
    /\ UNCHANGED notChat

\* app.get("/chats/:id"): chat = await Chat.findById(id); res.render("show.ejs", chat)
GetChat(id) ==
    /\ reqCount < MaxRequests
    /\ chatGetRoute(id) = "/chats/:id"
    /\ reqCount' = reqCount + 1
    /\ last' = IF isObjectId(id)
               THEN Resp("GET", "/chats/:id", id, <<>>, "render", "show.ejs", findById(chats, id))
               ELSE Unanswered("GET", "/chats/:id", id, <<>>)
    /\ UNCHANGED <<chats, chatNextId, pending, deletedIds, seeds>>
    /\ UNCHANGED notChat

\* app.get("/chats/:id/edit"): chat = await Chat.findById(id); res.render("edit", {chat})
GetChatEdit(id) ==
    /\ reqCount < MaxRequests
    /\ reqCount' = reqCount + 1
    /\ last' = IF isObjectId(id)
               THEN Resp("GET", "/chats/:id/edit", id, <<>>, "render", "edit", findById(chats, id))
               ELSE Unanswered("GET", "/chats/:id/edit", id, <<>>)
    /\ UNCHANGED <<chats, chatNextId, pending, deletedIds, seeds>>
    /\ UNCHANGED notChat

\* app.post("/chats"): chat = new Chat({...}); chat.save() is started and not
\* awaited; res.redirect("/chats")
PostChat(from, to, message) ==
    /\ reqCount < MaxRequests
    /\ reqCount' = reqCount + 1
    /\ pending' = pending \cup {newChat(chatNextId, from, to, message, reqCount + 1)}
    /\ chatNextId' = chatNextId + 1
    /\ last' = Resp("POST", "/chats", Null, message, "redirect", "/chats",
                     <<newChat(chatNextId, from, to, message, reqCount + 1)>>)
    /\ UNCHANGED <<chats, deletedIds, seeds>>
    /\ UNCHANGED notChat

\* the save() started by POST /chats settles: the document is validated and
\* inserted, or the save rejects and nothing is stored
SaveSettles ==
    \E doc \in pending :
        /\ pending' = pending \ {doc}
        /\ chats' = IF validate(doc) THEN Append(chats, doc) ELSE chats
        /\ UNCHANGED <<chatNextId, last, deletedIds, reqCount, seeds>>
        /\ UNCHANGED notChat

\* app.patch("/chats/:id"): await Chat.findByIdAndUpdate(id, {message}, {new: true});
\* res.redirect("/chats")
PatchChat(id, message) ==
    /\ reqCount < MaxRequests
    /\ reqCount' = reqCount + 1
    /\ chats' = IF isObjectId(id) THEN findByIdAndUpdate(chats, id, message) ELSE chats
    /\ last' = IF isObjectId(id)
               THEN Resp("PATCH", "/chats/:id", id, <<message>>, "redirect", "/chats",
                         findById(findByIdAndUpdate(chats, id, message), id))
               ELSE Unanswered("PATCH", "/chats/:id", id, <<message>>)
    /\ UNCHANGED <<chatNextId, pending, deletedIds, seeds>>
    /\ UNCHANGED notChat

\* app.delete("/chats/:id"): await Chat.findByIdAndDelete(id); res.redirect("/chats")
DeleteChat(id) ==
    /\ reqCount < MaxRequests
    /\ reqCount' = reqCount + 1
    /\ chats' = IF isObjectId(id) THEN deleteById(chats, id) ELSE chats
    /\ deletedIds' = IF id \in Ids(chats) THEN deletedIds \cup {id} ELSE deletedIds
    /\ last' = IF isObjectId(id)
               THEN Resp("DELETE", "/chats/:id", id, <<>>, "redirect", "/chats",
                         findById(chats, id))
               ELSE Unanswered("DELETE", "/chats/:id", id, <<>>)
    /\ UNCHANGED <<chatNextId, pending, seeds>>
    /\ UNCHANGED notChat

ChatNext ==
    \/ SeedInsert
    \/ GetChats
    \/ GetChatsNew
    \/ \E id \in Segments : GetChat(id)
    \/ \E id \in Segments : GetChatEdit(id)
    \/ \E from \in FromValues, to \in ToValues, message \in MessageValues :
          PostChat(from, to, message)
    \/ SaveSettles
    \/ \E id \in Segments, message \in PatchMessages : PatchChat(id, message)
    \/ \E id \in Segments : DeleteChat(id)


\* ============================================ Middleware/index.js (server)
\* number of requests the middleware demo server receives
MaxMwRequests == 2

\* A path is the sequence of its segments: <<>> is "/", <<"api", "x">> is
\* "/api/x".  A query value is what the query parser hands to the handler:
\* undefined, one string, or an array of strings (?token[]=a, ?token=a&token=b).
Undefined == [kind |-> "undefined", val |-> <<>>]
Str(s) == [kind |-> "string", val |-> <<s>>]
Arr(ss) == [kind |-> "array", val |-> ss]

\* a segment that is no valid percent-encoding
PctBad == "%zz"

MwPaths ==
    {<<>>, <<"ghost">>, <<"rahul">>, <<"api">>, <<"api", "ghost">>, <<"rahul", "posts">>,
     <<PctBad>>}

\* decodeURIComponent succeeds on the segment (the router decodes the
\* parameters of a route that matches; a URIError is answered 400)
decodes(seg) == seg # PctBad
MwMethods == {"GET", "POST"}
MwTokens ==
    {Undefined, Str("giveAccess"), Str("letMeIn"), Str(""),
     Arr(<<"giveAccess">>), Arr(<<"giveAccess", "giveAccess">>)}

\* Array.prototype.join(",")
RECURSIVE join(_)
join(ss) ==
    IF ss = <<>> THEN ""
    ELSE IF Len(ss) = 1 THEN ss[1]
    ELSE ss[1] \o "," \o join(Tail(ss))

\* v == s for a string s: a string compares by value, an array is converted
\* with join(",") first, undefined equals no string
looseEq(v, s) ==
    CASE v.kind = "string" -> v.val[1] = s
      [] v.kind = "array" -> join(v.val) = s
      [] OTHER -> FALSE

\* app.use("/api", ...) matches "/api" and every path below it
underApi(path) == Len(path) >= 1 /\ path[1] = "api"

MwIdle ==
    [method |-> "", path |-> <<>>, token |-> Undefined, stage |-> "idle",
     time |-> Null, ran |-> <<>>, sent |-> <<>>]

MwInit ==
    /\ mw = MwIdle
    /\ mwClock = 0

\* a request arrives; express.urlencoded() passes it on to the stack
MwReceive ==
    /\ mw.stage \in {"idle", "done"}
    /\ mwClock < MaxMwRequests
    /\ mwClock' = mwClock + 1
    /\ \E method \in MwMethods, path \in MwPaths, token \in MwTokens :
          mw' = [method |-> method, path |-> path, token |-> token,
                 stage |-> "tokenCheck", time |-> Null, ran |-> <<>>, sent |-> <<>>]
    /\ UNCHANGED notMw

\* a token check that answers "Access Denied" and calls next() all the same
MwTokenCheck_sendAndNext ==
    /\ mw.stage = "tokenCheck"
    /\ IF ~underApi(mw.path)
       THEN mw' = [mw EXCEPT !.stage = "timestamp"]
       ELSE IF looseEq(mw.token, "giveAccess")
       THEN mw' = [mw EXCEPT !.stage = "timestamp", !.ran = Append(@, "tokenCheck.next")]
       ELSE mw' = [mw EXCEPT !.stage = "timestamp", !.ran = Append(@, "tokenCheck.deny"),
                             !.sent = Append(@, "Access Denied")]
    /\ UNCHANGED mwClock
    /\ UNCHANGED notMw

\* a token check that hands every /api request on to the route handlers
MwTokenCheck_toRoute ==
    /\ mw.stage = "tokenCheck"
    /\ IF ~underApi(mw.path)
       THEN mw' = [mw EXCEPT !.stage = "timestamp"]
       ELSE mw' = [mw EXCEPT !.stage = "route", !.ran = Append(@, "tokenCheck.next")]
    /\ UNCHANGED mwClock
    /\ UNCHANGED notMw

\* app.use("/api", (req, res, next) => { token == "giveAccess" ? next()
\* : res.send("Access Denied") }); skipped for paths that are not under /api
MwTokenCheck ==
    /\ mw.stage = "tokenCheck"
    /\ IF ~underApi(mw.path)
       THEN mw' = [mw EXCEPT !.stage = "timestamp"]
       ELSE IF looseEq(mw.token, "giveAccess")
       THEN mw' = [mw EXCEPT !.stage = "timestamp", !.ran = Append(@, "tokenCheck.next")]
       ELSE mw' = [mw EXCEPT !.stage = "done", !.ran = Append(@, "tokenCheck.deny"),
                             !.sent = Append(@, "Access Denied")]
    /\ UNCHANGED mwClock
    /\ UNCHANGED notMw

\* app.use((req, res, next) => { req.time = ...; console.log(req.time); return next() })
MwTimestamp ==
    /\ mw.stage = "timestamp"
    /\ mw' = [mw EXCEPT !.stage = "route", !.time = mwClock, !.ran = Append(@, "timestamp")]
    /\ UNCHANGED mwClock
    /\ UNCHANGED notMw

\* the response texts of the routes (the ghost text is written without its
\* two leading emoji)
RootText == "Add '/ghost' on your route or add '/$yourname' on the route"
GhostText == "I'm the ghost"
Welcome(name) == "Have a warm welcome here " \o name

\* a route table with "/:name" registered before "/ghost"
MwRoute_nameFirst ==
    /\ mw.stage = "route"
    /\ IF mw.method = "GET" /\ mw.path = <<>>
       THEN mw' = [mw EXCEPT !.stage = "done", !.ran = Append(@, "root"),
                     !.sent = Append(@, RootText)]
       ELSE IF mw.method = "GET" /\ Len(mw.path) = 1 /\ ~decodes(mw.path[1])
       THEN mw' = [mw EXCEPT !.stage = "done", !.sent = Append(@, "400")]
       ELSE IF mw.method = "GET" /\ Len(mw.path) = 1
       THEN mw' = [mw EXCEPT !.stage = "done", !.ran = Append(@, "name"),
                     !.sent = Append(@, Welcome(mw.path[1]))]
       ELSE mw' = [mw EXCEPT !.stage = "done", !.sent = Append(@, "404")]
    /\ UNCHANGED mwClock
    /\ UNCHANGED notMw

\* the routes in registration order: GET "/", GET "/ghost", GET "/:name";
\* a segment the router cannot decode for :name is answered 400, a request
\* no route matches gets the framework's 404
MwRoute ==
    /\ mw.stage = "route"
    /\ IF mw.method = "GET" /\ mw.path = <<>>
       THEN mw' = [mw EXCEPT !.stage = "done", !.ran = Append(@, "root"),
                     !.sent = Append(@, RootText)]
       ELSE IF mw.method = "GET" /\ mw.path = <<"ghost">>
       THEN mw' = [mw EXCEPT !.stage = "done", !.ran = Append(@, "ghost"),
                     !.sent = Append(@, GhostText)]
       ELSE IF mw.method = "GET" /\ Len(mw.path) = 1 /\ ~decodes(mw.path[1])
       THEN mw' = [mw EXCEPT !.stage = "done", !.sent = Append(@, "400")]
       ELSE IF mw.method = "GET" /\ Len(mw.path) = 1
       THEN mw' = [mw EXCEPT !.stage = "done", !.ran = Append(@, "name"),
                     !.sent = Append(@, Welcome(mw.path[1]))]
       ELSE mw' = [mw EXCEPT !.stage = "done", !.sent = Append(@, "404")]
    /\ UNCHANGED mwClock
    /\ UNCHANGED notMw

MwNext ==
    \/ MwReceive
    \/ MwTokenCheck
    \/ MwTimestamp
    \/ MwRoute

\* ================================= the Express guide's server (routing demo)
\* the same three routes behind express.urlencoded() alone
DemoIdle == [method |-> "", path |-> <<>>, stage |-> "idle", ran |-> <<>>, sent |-> <<>>]

DemoInit == demo = DemoIdle

\* a request arrives; express.urlencoded() passes it on to the routes
DemoReceive ==
    /\ demo.stage \in {"idle", "done"}
    /\ \E method \in MwMethods, path \in MwPaths :
          demo' = [method |-> method, path |-> path, stage |-> "route",
                   ran |-> <<>>, sent |-> <<>>]
    /\ UNCHANGED notDemo

\* the routes in registration order: GET "/", GET "/ghost", GET "/:name"
DemoRoute ==
    /\ demo.stage = "route"
    /\ IF demo.method = "GET" /\ demo.path = <<>>
       THEN demo' = [demo EXCEPT !.stage = "done", !.ran = Append(@, "root"),
                       !.sent = Append(@, RootText)]
       ELSE IF demo.method = "GET" /\ demo.path = <<"ghost">>
       THEN demo' = [demo EXCEPT !.stage = "done", !.ran = Append(@, "ghost"),
                       !.sent = Append(@, GhostText)]
       ELSE IF demo.method = "GET" /\ Len(demo.path) = 1 /\ ~decodes(demo.path[1])
       THEN demo' = [demo EXCEPT !.stage = "done", !.sent = Append(@, "400")]
       ELSE IF demo.method = "GET" /\ Len(demo.path) = 1
       THEN demo' = [demo EXCEPT !.stage = "done", !.ran = Append(@, "name"),
                       !.sent = Append(@, Welcome(demo.path[1]))]
       ELSE demo' = [demo EXCEPT !.stage = "done", !.sent = Append(@, "404")]
    /\ UNCHANGED notDemo

\* both demo servers, each handling its own requests
ServersNext ==
    \/ MwReceive
    \/ MwTokenCheck
    \/ MwTimestamp
    \/ MwRoute
    \/ DemoReceive
    \/ DemoRoute


\* ================================================ main(): store connection
\* the scripts that open a connection through main()
Scripts == {"costumer.js", "posts.js", "user.js", "queries", "chatServer", "chatSeed"}

\* main() of the relationship scripts and of the query script is
\* `await mongoose.connect(...)`; main() of the chat server and of the chat
\* seed script calls mongoose.connect(...) and drops the promise
awaitsConnect(s) == s \in {"costumer.js", "posts.js", "user.js", "queries"}

\* what the .then handler attached to main() logs
successMessage(s) ==
    CASE s \in {"costumer.js", "posts.js", "user.js"} -> "Connected to db"
      [] s = "queries" -> "Mongodb server is connected"
      [] OTHER -> "Connection sucessful"

ConnIdle == [connect |-> "none", main |-> "none", log |-> <<>>, unhandled |-> FALSE]

ConnInit == conn = [s \in Scripts |-> ConnIdle]

\* main() is called: the connection attempt starts; a main() that does not
\* await it has run to its end and its promise is already fulfilled
CallMain(s) ==
    /\ conn[s].connect = "none"
    /\ conn' = [conn EXCEPT ![s].connect = "pending",
                            ![s].main = IF awaitsConnect(s) THEN "pending" ELSE "fulfilled"]
    /\ UNCHANGED notConn

\* the connection attempt succeeds or fails; an awaiting main() settles the
\* same way, otherwise a failure is a rejection nobody handles
ConnectSettles(s, ok) ==
    /\ conn[s].connect = "pending"
    /\ conn' = [conn EXCEPT
                  ![s].connect = IF ok THEN "ok" ELSE "failed",
                  ![s].main = IF awaitsConnect(s)
                              THEN (IF ok THEN "fulfilled" ELSE "rejected")
                              ELSE @,
                  ![s].unhandled = ~awaitsConnect(s) /\ ~ok]
    /\ UNCHANGED notConn

\* .then(() => console.log(<success message>))
ThenHandler(s) ==
    /\ conn[s].main = "fulfilled"
    /\ conn' = [conn EXCEPT ![s].main = "handled",
                            ![s].log = Append(@, successMessage(s))]
    /\ UNCHANGED notConn

\* .catch((err) => console.log(err))
CatchHandler(s) ==
    /\ conn[s].main = "rejected"
    /\ conn' = [conn EXCEPT ![s].main = "handled",
                            ![s].log = Append(@, "err")]
    /\ UNCHANGED notConn

ConnNext ==
    \/ \E s \in Scripts : CallMain(s)
    \/ \E s \in Scripts, ok \in BOOLEAN : ConnectSettles(s, ok)
    \/ \E s \in Scripts : ThenHandler(s)
    \/ \E s \in Scripts : CatchHandler(s)


\* ===================================== the query script (User, queryManager)
\* the id argument ranges over the malformed literal and 1..MaxIdArg
MaxIdArg == 2

\* the literal "87b2e414a952a5fd7e6f600" has 23 characters and is no ObjectId
MalformedId == Null

\* the store calls of the script, in program order
Calls ==
    <<"save", "insertMany", "findOne", "find", "findById", "updateOne",
      "updateMany", "findOneAndUpdate", "findByIdAndUpdate", "findOneAndDelete">>

CallNames == {Calls[i] : i \in DOMAIN Calls}

\* the calls handed to queryManager
Queries == CallNames \ {"save", "insertMany"}

\* userSchema
SchemaPaths == {"name", "email", "age"}

User1 == [name |-> "user1", email |-> "user1@gmail.com", age |-> 18]

InsertManyDocs ==
    << [name |-> "user2", email |-> "user2@gmail.com", age |-> 18, password |-> "bhootnath"],
       [name |-> "user3", email |-> "user3@gmail.com", password |-> "bootcamp", age |-> 19],
       [name |-> "user4", passsword |-> "bothume", age |-> 20, email |-> "user4@gmail.com"] >>

\* a schema in strict: "throw" mode: an undeclared field is an error
strictOk_throw(raw) == DOMAIN raw \subseteq SchemaPaths

\* the schema's default strict mode: undeclared fields are dropped silently
strictOk(raw) == TRUE

\* new User(raw): the declared paths of raw, with a fresh _id
castUser(raw, id) ==
    [_id |-> id, name |-> raw.name, email |-> raw.email, age |-> raw.age]

\* results of store calls as queryManager sees them
Fulfilled(shape, docs, n) == [kind |-> "ok", shape |-> shape, docs |-> docs, n |-> n]
Rejected(err) == [kind |-> "err", shape |-> err, docs |-> <<>>, n |-> 0]

\* a single document or null
OneDoc(opt) == Fulfilled(IF opt = <<>> THEN "null" ELSE "object", opt, 0)

Out(us, res) == [users |-> us, res |-> res]

\* Model.findOne({name}): the first match in natural order, or null
findOneByName(coll, name) ==
    LET idx == {i \in DOMAIN coll : coll[i].name = name}
    IN  IF idx = {} THEN <<>> ELSE <<coll[Min(idx)]>>

setAge(coll, id, age) ==
    [i \in DOMAIN coll |-> IF coll[i]._id = id THEN [coll[i] EXCEPT !.age = age] ELSE coll[i]]

\* user1.save()
execSave(coll) == Out(Append(coll, castUser(User1, 1)), OneDoc(<<castUser(User1, 1)>>))

\* User.insertMany([...]): no path of userSchema has a validator
execInsertMany(coll) ==
    LET built == [i \in DOMAIN InsertManyDocs |-> castUser(InsertManyDocs[i], 1 + i)]
    IN  IF \A i \in DOMAIN InsertManyDocs : strictOk(InsertManyDocs[i])
        THEN Out(coll \o built, Fulfilled("array", built, 0))
        ELSE Out(coll, Rejected("ValidationError"))

\* User.findOne({name: "user1"})
execFindOne(coll) == Out(coll, OneDoc(findOneByName(coll, "user1")))

\* User.find({age: 18})
execFind(coll) == Out(coll, Fulfilled("array", SelectSeq(coll, LAMBDA u : u.age = 18), 0))

\* User.findById(id)
execFindById(coll, id) ==
    IF id = MalformedId THEN Out(coll, Rejected("CastError"))
    ELSE Out(coll, OneDoc(findById(coll, id)))

\* User.updateOne({name: "user1"}, {age: 20})
execUpdateOne(coll) ==
    LET hit == findOneByName(coll, "user1")
    IN  IF hit = <<>> THEN Out(coll, Fulfilled("updateResult", <<>>, 0))
        ELSE Out(setAge(coll, hit[1]._id, 20), Fulfilled("updateResult", <<>>, 1))

\* User.updateMany({age: {$gt: 18}}, {age: 18})
execUpdateMany(coll) ==
    Out([i \in DOMAIN coll |-> IF coll[i].age > 18 THEN [coll[i] EXCEPT !.age = 18] ELSE coll[i]],
        Fulfilled("updateResult", <<>>, Cardinality({i \in DOMAIN coll : coll[i].age > 18})))

\* a findOneAndUpdate that resolves to the document after the update
execFindOneAndUpdate_new(coll) ==
    LET hit == findOneByName(coll, "user1")
    IN  IF hit = <<>> THEN Out(coll, OneDoc(<<>>))
        ELSE Out(setAge(coll, hit[1]._id, 20), OneDoc(<<[hit[1] EXCEPT !.age = 20]>>))

\* User.findOneAndUpdate({name: "user1"}, {age: 20}): resolves to the
\* document as it was found
execFindOneAndUpdate(coll) ==
    LET hit == findOneByName(coll, "user1")
    IN  IF hit = <<>> THEN Out(coll, OneDoc(<<>>))
        ELSE Out(setAge(coll, hit[1]._id, 20), OneDoc(hit))

\* User.findByIdAndUpdate(id, {age: 55}, {new: true}): resolves to the
\* document after the update
execFindByIdAndUpdate(coll, id) ==
    IF id = MalformedId THEN Out(coll, Rejected("CastError"))
    ELSE Out(setAge(coll, id, 55), OneDoc(findById(setAge(coll, id, 55), id)))

\* User.findOneAndDelete({name: "user1"})
execFindOneAndDelete(coll) ==
    LET hit == findOneByName(coll, "user1")
    IN  IF hit = <<>> THEN Out(coll, OneDoc(<<>>))
        ELSE Out(deleteById(coll, hit[1]._id), OneDoc(hit))

exec(c, coll, id) ==
    CASE c = "save" -> execSave(coll)
      [] c = "insertMany" -> execInsertMany(coll)
      [] c = "findOne" -> execFindOne(coll)
      [] c = "find" -> execFind(coll)
      [] c = "findById" -> execFindById(coll, id)
      [] c = "updateOne" -> execUpdateOne(coll)
      [] c = "updateMany" -> execUpdateMany(coll)
      [] c = "findOneAndUpdate" -> execFindOneAndUpdate(coll)
      [] c = "findByIdAndUpdate" -> execFindByIdAndUpdate(coll, id)
      [] OTHER -> execFindOneAndDelete(coll)

\* a queryManager with the handlers chained the other way round:
\* query.catch(logError).then(logResult)
queryManager_catchFirst(res) ==
    IF res.kind = "ok" THEN <<res>> ELSE <<res, Fulfilled("undefined", <<>>, 0)>>

\* queryManager(query): query.then(logResult).catch(logError)
queryManager(res) == <<res>>

UserInit ==
    /\ users = <<>>
    /\ idArg = MalformedId
    /\ issued = 0
    /\ promise = [c \in CallNames |-> "none"]
    /\ out = [c \in CallNames |-> <<>>]

\* the script runs to its end: each store call is made in program order;
\* the id literal of findById and findByIdAndUpdate is an input, the
\* malformed one of the script or the id of a document
IssueCall ==
    /\ issued < Len(Calls)
    /\ issued' = issued + 1
    /\ promise' = [promise EXCEPT ![Calls[issued + 1]] = "pending"]
    /\ IF Calls[issued + 1] = "findById"
       THEN idArg' \in {MalformedId} \cup 1..MaxIdArg
       ELSE idArg' = idArg
    /\ UNCHANGED <<users, out>>
    /\ UNCHANGED notUser

\* after the script has run to its end, the store answers the calls in any
\* order; the promise settles and the handler attached to it runs
SettleCall(c) ==
    /\ issued = Len(Calls)
    /\ promise[c] = "pending"
    /\ LET o == exec(c, users, idArg)
       IN  /\ users' = o.users
           /\ promise' = [promise EXCEPT ![c] = IF o.res.kind = "ok" THEN "fulfilled" ELSE "rejected"]
           /\ out' = [out EXCEPT ![c] = IF c \in Queries THEN queryManager(o.res) ELSE <<>>]
    /\ UNCHANGED <<idArg, issued>>
    /\ UNCHANGED notUser

UserNext ==
    \/ IssueCall
    \/ \E c \in CallNames : SettleCall(c)

\* ================================================================ posts.js
\* number of runs of posts.js
MaxPostRuns == 4

\* new User({username: "rahulgandhi", email: "rahulofficial@gmail.com"})
newUser(id) ==
    [_id |-> id, username |-> "rahulgandhi", email |-> "rahulofficial@gmail.com"]

\* the paths of UserSchema
UserSchemaPaths == {"_id", "username", "email"}

\* User.find({name: "rahulgandhi"}): name is no path of UserSchema.  With
\* strictQuery the key is removed from the filter and every User matches;
\* without it the store compares a field the documents do not have.
findUsersByName(coll, strictQuery) ==
    IF strictQuery /\ "name" \notin UserSchemaPaths
    THEN coll
    ELSE SelectSeq(coll, LAMBDA u : "name" \in DOMAIN u /\ u.name = "rahulgandhi")

\* user: user1[0] cast into the ObjectId path: the _id of the document, or
\* nothing when the array is empty
castUserRef(found) == IF found = <<>> THEN Null ELSE found[1]._id

\* Post.insertMany([{..., user: user1[0]}, {..., user: user1[0]}])
insertManyPosts(coll, ref, id0) ==
    coll \o << [_id |-> id0, content |-> "Reservation ko badhaya jayega",
                likes |-> 533, user |-> ref],
               [_id |-> id0 + 1, content |-> "BJP is stealing votes",
                likes |-> 953443, user |-> ref] >>

AuIdle == [pc |-> "idle", user1 |-> <<>>]
ApIdle == [pc |-> "idle", strictQuery |-> FALSE, user1 |-> <<>>]

PostInit ==
    /\ pUsers = <<>>
    /\ pPosts = <<>>
    /\ pNextId = 1
    /\ au = AuIdle
    /\ ap = ApIdle
    /\ pRuns = 0

\* the script runs: addUser() builds user1 and starts user1.save(), then
\* addPost() starts User.find(...); neither call is awaited.  The installed
\* mongoose decides whether strictQuery is on.
PostsStart ==
    /\ pRuns < MaxPostRuns
    /\ au.pc \in {"idle", "done"}
    /\ ap.pc \in {"idle", "done"}
    /\ pRuns' = pRuns + 1
    /\ au' = [pc |-> "save", user1 |-> <<newUser(pNextId)>>]
    /\ pNextId' = pNextId + 1
    /\ \E strictQuery \in BOOLEAN :
          ap' = [pc |-> "find", strictQuery |-> strictQuery, user1 |-> <<>>]
    /\ UNCHANGED <<pUsers, pPosts>>
    /\ UNCHANGED notPost

\* addUser: result = await user1.save(); console.log(result)
AddUserSave ==
    /\ au.pc = "save"
    /\ pUsers' = Append(pUsers, au.user1[1])
    /\ au' = [au EXCEPT !.pc = "done"]
    /\ UNCHANGED <<pPosts, pNextId, ap, pRuns>>
    /\ UNCHANGED notPost

\* addPost: user1 = await User.find({name: "rahulgandhi"})
AddPostFind ==
    /\ ap.pc = "find"
    /\ ap' = [ap EXCEPT !.pc = "insertMany",
                        !.user1 = findUsersByName(pUsers, ap.strictQuery)]
    /\ UNCHANGED <<pUsers, pPosts, pNextId, au, pRuns>>
    /\ UNCHANGED notPost

\* addPost: result = await Post.insertMany([...]); console.log(result)
AddPostInsertMany ==
    /\ ap.pc = "insertMany"
    /\ pPosts' = insertManyPosts(pPosts, castUserRef(ap.user1), pNextId)
    /\ pNextId' = pNextId + 2
    /\ ap' = [ap EXCEPT !.pc = "done"]
    /\ UNCHANGED <<pUsers, au, pRuns>>
    /\ UNCHANGED notPost

PostNext ==
    \/ PostsStart
    \/ AddUserSave
    \/ AddPostFind
    \/ AddPostInsertMany

\* ========================================================= specifications
Init == RelInit /\ ChatInit /\ MwInit /\ ConnInit /\ UserInit /\ DemoInit /\ PostInit

\* the relationship script, with another client deleting Orders
SpecRel == Init /\ [][RelNext]_vars

\* the chat server and its seed script
SpecChat == Init /\ [][ChatNext]_vars

\* the middleware demo server
SpecMw == Init /\ [][MwNext]_vars

\* the connection each script opens at start
SpecConn == Init /\ [][ConnNext]_vars

\* the query script
SpecUser == Init /\ [][UserNext]_vars

\* the middleware demo server and the routing demo server side by side
SpecServers == Init /\ [][ServersNext]_vars

\* posts.js, run up to MaxPostRuns times
SpecPost == Init /\ [][PostNext]_vars

\* ===================================================== claims: costumer.js
Max(S) == CHOOSE x \in S : \A y \in S : x >= y

\* position of the latest event `op` in the trace (0 when there is none)
LastIdx(op) ==
    LET idx == {i \in DOMAIN trace : trace[i].op = op}
    IN  IF idx = {} THEN 0 ELSE Max(idx)

FdComplete == fd.pc \in {"ok", "threw"}

\* the references of the Customer findData read (empty when it read null)
FdRefs == IF fd.customer = <<>> THEN <<>> ELSE fd.customer[1].orders

ItemPrice(docs) == [i \in DOMAIN docs |-> <<docs[i].item, docs[i].price>>]

\* ItemData ran to completion on the empty store, CustomerData was then
\* called and completed, nobody deleted an Order, and a findData called
\* afterwards has completed
C1_Scenario ==
    /\ Len(trace) >= 5
    /\ SubSeq(trace, 1, 3) =
          <<Ev("ItemData", 1), Ev("CustomerData", Null), Ev("CustomerData.ret", 4)>>
    /\ Count("deleteOrder") = 0
    /\ FdComplete

\* C1: from an empty store, after ItemData and then CustomerData completed,
\* findData's populated orders are exactly Samosa/15 then Dosa/30 (no Coke).
C1_PopulatedOrdersOfSeededCustomer ==
    C1_Scenario =>
        /\ fd.pc = "ok"
        /\ ItemPrice(fd.result) = << <<"Samosa", 15>>, <<"Dosa", 30>> >>
        /\ \A i \in DOMAIN fd.result : fd.result[i].item # "Coke"

C1_Witness == C1_Scenario /\ Len(fd.result) = 2

\* C2: for every stored Customer and every state of the Order collection,
\* resolving its orders yields at most as many entries as identifiers are
\* stored; the same holds for the array findData produced.
C2_ResolveNeverAdds ==
    /\ \A i \in DOMAIN customers :
          Len(populate(customers[i].orders, orders)) <= Len(customers[i].orders)
    /\ fd.pc = "ok" => Len(fd.result) <= Len(FdRefs)

C2_Witness ==
    /\ fd.pc = "ok"
    /\ Len(fd.result) = 1
    /\ Len(orders) >= 3
    /\ \E i \in DOMAIN customers :
          Len(populate(customers[i].orders, orders)) < Len(customers[i].orders)

\* an Order the Customer read by the completed findData references was
\* deleted before that findData was called
C3_DeletedBefore(id) ==
    /\ FdComplete
    /\ \E i \in DOMAIN FdRefs : FdRefs[i] = id
    /\ \E j \in DOMAIN trace :
          /\ trace[j] = Ev("deleteOrder", id)
          /\ j < LastIdx("findData")

\* C3: resolving a Customer after one of its referenced Orders was deleted
\* completes without an exception, with a shorter array that does not hold
\* the deleted Order.
C3_ResolveAfterDelete ==
    \A id \in 1..(nextId - 1) :
        C3_DeletedBefore(id) =>
            /\ fd.pc = "ok"
            /\ Len(fd.result) < Len(FdRefs)
            /\ id \notin Ids(fd.result)

C3_Witness == \E id \in 1..(nextId - 1) : C3_DeletedBefore(id) /\ fd.pc = "ok"

\* C4: when the populate step runs and some stored identifier matches no
\* Order, the result is exactly the Orders of the identifiers that do match,
\* each as the full record, in the relative order of the stored array.
C4_OtherReferencesResolved ==
    [][ (/\ fd.pc = "populate"
         /\ fd'.pc # "populate"
         /\ \E i \in DOMAIN FdRefs : FdRefs[i] \notin Ids(orders))
        => LET existing == SelectSeq(FdRefs, LAMBDA r : r \in Ids(orders))
           IN  /\ fd'.pc = "ok"
               /\ Len(fd'.result) = Len(existing)
               /\ \A i \in DOMAIN existing :
                     /\ fd'.result[i]._id = existing[i]
                     /\ \E k \in DOMAIN orders : orders[k] = fd'.result[i]
      ]_vars

C4_Witness ==
    /\ fd.pc = "ok"
    /\ Len(FdRefs) = 2
    /\ FdRefs[1] # Null /\ FdRefs[2] # Null
    /\ Len(fd.result) = 1
    /\ fd.result[1]._id = FdRefs[2]

\* an Order the Customer read by the completed findData references was
\* deleted after the Customer read and before the Order read
C5_DeletedBetweenReads(id) ==
    /\ FdComplete
    /\ \E i \in DOMAIN FdRefs : FdRefs[i] = id
    /\ \E j \in DOMAIN trace :
          /\ trace[j] = Ev("deleteOrder", id)
          /\ LastIdx("findData") < j
          /\ j < LastIdx("findData.ret")

\* C5: an Order deleted between findData's two reads is missing from the
\* resolved result, and findData still completes without an error.
C5_DeleteBetweenReads ==
    \A id \in 1..(nextId - 1) :
        C5_DeletedBetweenReads(id) =>
            /\ fd.pc = "ok"
            /\ id \notin Ids(fd.result)
            /\ Len(fd.result) < Len(FdRefs)

C5_Witness == \E id \in 1..(nextId - 1) : C5_DeletedBetweenReads(id) /\ fd.pc = "ok"

\* C9: with only ItemData and CustomerData invoked (no deletion by anyone),
\* every entry of every stored Customer's orders identifies a stored Order.
C9_ReferencesIdentifyOrders ==
    Count("deleteOrder") = 0 =>
        \A i \in DOMAIN customers :
            \A k \in DOMAIN customers[i].orders :
                customers[i].orders[k] \in Ids(orders)

\* C10: no step of ItemData, CustomerData or findData changes or removes a
\* stored Order or Customer; the collections only grow at the end.
C10_CreateOnly ==
    [][ ScriptStep => IsPrefix(orders, orders') /\ IsPrefix(customers, customers') ]_vars

C10_Witness ==
    /\ Len(orders) = 2 * Len(ItemDocs)
    /\ Len(customers) >= 1
    /\ trace[Len(trace)].op = "ItemData"

\* ================================================ claims: the chat server
ReadById(id) == GetChat(id) \/ GetChatEdit(id)

\* the request handled last was a PATCH of chat `id` that found the chat
PatchedLast(id) ==
    /\ last.method = "PATCH"
    /\ last.id = id
    /\ last.data # <<>>

\* C6: when PATCH /chats/:id with message m was handled for an existing chat
\* and the next request reads that chat by id (show or edit), the chat
\* returned carries message m.
C6_ReadAfterPatch ==
    [][ \A id \in ReqIds :
           (PatchedLast(id) /\ ReadById(id)) =>
               /\ last'.data # <<>>
               /\ last'.data[1]._id = id
               /\ last'.data[1].message = last.body
      ]_vars

C6_Witness ==
    /\ last.method = "GET"
    /\ last.route \in {"/chats/:id", "/chats/:id/edit"}
    /\ last.data # <<>>
    /\ last.data[1].message = <<"bye">>

\* C7: once DELETE /chats/:id removed a chat, a lookup of that id returns
\* null in every later state, the show and edit routes get null for it, and
\* the list of GET /chats does not hold it.
C7_DeletedStaysGone ==
    /\ \A id \in deletedIds : findById(chats, id) = <<>>
    /\ (last.method = "GET" /\ last.route \in {"/chats/:id", "/chats/:id/edit"}
            /\ last.id \in deletedIds) => last.data = <<>>
    /\ (last.method = "GET" /\ last.route = "/chats")
            => \A i \in DOMAIN last.data : last.data[i]._id \notin deletedIds

C7_Witness ==
    /\ deletedIds # {}
    /\ chats # <<>>
    /\ last.method = "GET"
    /\ last.route = "/chats/:id"
    /\ last.id \in deletedIds

\* C8: every stored Chat has a message of at most 50 characters.
C8_MessageAtMost50 ==
    \A i \in DOMAIN chats : maxLengthOk(chats[i].message)

\* ================================== claims: the middleware demo server
RouteHandlers == {"root", "ghost", "name"}

Ran(h) == \E i \in DOMAIN mw.ran : mw.ran[i] = h

Before(h1, h2) ==
    \E i, j \in DOMAIN mw.ran : i < j /\ mw.ran[i] = h1 /\ mw.ran[j] = h2

\* the token of the request in flight is the string "giveAccess"
TokenIsGiveAccess == mw.token = Str("giveAccess")

\* C11: a request under /api whose token is not "giveAccess" (or is missing)
\* is answered with "Access Denied" and neither the timestamp middleware nor
\* a route handler runs for it; next() is called only for token "giveAccess".
C11_ApiRequiresToken ==
    /\ (underApi(mw.path) /\ ~TokenIsGiveAccess /\ mw.stage # "idle") =>
          /\ ~Ran("timestamp")
          /\ \A h \in RouteHandlers : ~Ran(h)
          /\ mw.stage = "done" => mw.sent = <<"Access Denied">>
    /\ Ran("tokenCheck.next") => TokenIsGiveAccess

\* C17: a request that reached a route handler had req.time set by the
\* timestamp middleware before, and under /api the token check ran and
\* passed before the timestamp middleware.
C17_RegistrationOrder ==
    /\ \A h \in RouteHandlers :
          Ran(h) => /\ Before("timestamp", h)
                    /\ mw.time # Null
                    /\ underApi(mw.path) => Before("tokenCheck.next", "timestamp")
    /\ (underApi(mw.path) /\ Ran("timestamp")) => Before("tokenCheck.next", "timestamp")

C17_Witness ==
    /\ mw.stage = "done"
    /\ mw.path = <<"api">>
    /\ mw.ran = <<"tokenCheck.next", "timestamp", "name">>

\* ======================================= claims: the store connection
\* the connection attempt of script s is over and no handler is left to run
ConnQuiescent(s) ==
    /\ conn[s].connect \in {"ok", "failed"}
    /\ conn[s].main = "handled"

ErrLogged(s) == \E i \in DOMAIN conn[s].log : conn[s].log[i] = "err"

\* C12: in every script, once a failed connection attempt has run its
\* course, the .catch handler attached to main() has logged the error.
C12_ConnectFailureLogged ==
    \A s \in Scripts :
        (conn[s].connect = "failed" /\ ConnQuiescent(s)) => ErrLogged(s)

\* ============================================ claims: the query script
Settled(c) == promise[c] \in {"fulfilled", "rejected"}

\* C13: every query handed to queryManager gets exactly one log entry once
\* it settles, the success entry if it fulfilled and the error entry if it
\* rejected, and none before; when a query has rejected, every query has
\* been issued and every query still pending can settle and be logged.
C13_OneLogEntryPerQuery ==
    /\ \A q \in Queries :
          /\ Len(out[q]) <= 1
          /\ ~Settled(q) => out[q] = <<>>
          /\ promise[q] = "fulfilled" => (Len(out[q]) = 1 /\ out[q][1].kind = "ok")
          /\ promise[q] = "rejected" => (Len(out[q]) = 1 /\ out[q][1].kind = "err")
    /\ (\E q \in Queries : promise[q] = "rejected") =>
          /\ issued = Len(Calls)
          /\ \A r \in Queries : promise[r] = "pending" => ENABLED SettleCall(r)

C13_Witness ==
    /\ \A q \in Queries : Settled(q) /\ Len(out[q]) = 1
    /\ promise["findById"] = "rejected"
    /\ promise["findOneAndDelete"] = "fulfilled"

\* C14: User.insertMany with the undeclared fields password / passsword is
\* not rejected, and once it has settled its three documents are stored.
C14_UndeclaredFieldsAccepted ==
    /\ promise["insertMany"] # "rejected"
    /\ promise["insertMany"] = "fulfilled" =>
          \A i \in DOMAIN InsertManyDocs :
              \E k \in DOMAIN users :
                  /\ users[k]._id = 1 + i
                  /\ users[k].name = InsertManyDocs[i].name

C14_Witness ==
    /\ promise["insertMany"] = "fulfilled"
    /\ Cardinality({k \in DOMAIN users : users[k].name \in {"user2", "user3", "user4"}}) = 3

SettlesOk(c) == promise[c] = "pending" /\ promise'[c] = "fulfilled"

C19_ShapesAsCommented ==
    /\ promise["findOne"] = "fulfilled" => out["findOne"][1].shape = "array"
    /\ promise["find"] = "fulfilled" => out["find"][1].shape = "object"

\* ===================================== claims: costumer.js (continued)
\* C15: with no Customer in the store, findData completes without an
\* exception or a rejected promise.
C15_NotFoundIsNoError ==
    (FdComplete /\ fd.customer = <<>>) => fd.pc = "ok"

\* ================================== claims: the chat server (continued)
\* C20: the GET /chats handled right after a POST /chats with a valid body
\* was answered lists the chat that POST created.
C20_ListedAfterRedirect ==
    [][ (/\ last.method = "POST"
         /\ last.status = "redirect"
         /\ validate(last.data[1])
         /\ GetChats)
        => \E i \in DOMAIN last'.data : last'.data[i]._id = last.data[1]._id
      ]_vars

\* C21: every request handled by a route of the chat server has received a
\* response (a rendered view or a redirect) when its handler has ended, also
\* when the store call it awaited rejected.
C21_EveryRequestAnswered ==
    last.method # "" => last.status \in {"render", "redirect"}

\* C23: PATCH /chats/:id changes only the message of the chat with that id:
\* the number of chats, every other chat and the from, to and date of the
\* chat itself stay as they were; with no chat of that id the store is
\* unchanged.
C23_PatchOnlyMessage ==
    [][ \A id \in Segments, m \in PatchMessages :
           PatchChat(id, m) =>
               /\ Len(chats') = Len(chats)
               /\ \A i \in DOMAIN chats :
                     /\ chats'[i]._id = chats[i]._id
                     /\ chats'[i].from = chats[i].from
                     /\ chats'[i].to = chats[i].to
                     /\ chats'[i].date = chats[i].date
                     /\ chats[i]._id # id => chats'[i] = chats[i]
               /\ id \notin Ids(chats) => chats' = chats
      ]_vars

C23_Witness ==
    /\ last.method = "PATCH"
    /\ last.data # <<>>
    /\ Len(chats) = Len(SeedDocs)
    /\ \E i \in DOMAIN chats :
          /\ chats[i]._id = last.id
          /\ chats[i].message = <<"bye">>
          /\ chats[i].from = SeedDocs[i].from
          /\ chats[i].to = SeedDocs[i].to
    /\ \E j \in DOMAIN chats :
          chats[j]._id # last.id /\ chats[j].message = SeedDocs[j].message

\* C24: DELETE /chats/:id removes at most the chat with that id and leaves
\* every other chat as it was, in place; when no chat has that id (also on a
\* repeated DELETE) the store is unchanged; the answer is always the
\* redirect to /chats.
C24_DeleteOnlyThatChat ==
    [][ \A id \in Segments :
           DeleteChat(id) =>
               /\ Len(chats) - Len(chats') \in {0, 1}
               /\ \A d \in {chats[i] : i \in DOMAIN chats} :
                     d._id # id => \E k \in DOMAIN chats' : chats'[k] = d
               /\ id \notin Ids(chats')
               /\ id \notin Ids(chats) => chats' = chats
               /\ last'.status = "redirect"
               /\ last'.view = "/chats"
      ]_vars

\* the last request was a POST /chats whose body lacked from or to
PostLacksField ==
    /\ last.method = "POST"
    /\ ~(required(last.data[1].from) /\ required(last.data[1].to))

\* C25: every stored Chat has from and to present; the document of a POST
\* /chats whose body lacks from or to is not stored.
C25_FromAndToPresent ==
    /\ \A i \in DOMAIN chats : required(chats[i].from) /\ required(chats[i].to)
    /\ PostLacksField => last.data[1]._id \notin Ids(chats)

C25_Witness ==
    /\ PostLacksField
    /\ last.data[1].to # <<>>
    /\ pending = {}
    /\ chats # <<>>

\* C28: GET /chats/new is handled by the /chats/new route, which renders the
\* new-chat form without a store lookup; the /chats/:id route never gets the
\* segment "new", and the form is rendered whenever a request can be handled.
C28_NewIsNotAnId ==
    /\ (last.method = "GET" /\ last.id = SegNew /\ last.route # "/chats/:id/edit") =>
          /\ last.route = "/chats/new"
          /\ last.status = "render"
          /\ last.view = "new.ejs"
          /\ last.data = <<>>
    /\ ~ENABLED GetChat(SegNew)
    /\ reqCount < MaxRequests => ENABLED GetChatsNew

C28_Witness ==
    /\ last.method = "GET"
    /\ last.route = "/chats/new"
    /\ last.view = "new.ejs"
    /\ chats # <<>>
    /\ reqCount = MaxRequests

\* =========================== claims: the demo servers (continued)
\* C22: a request to the middleware demo server gets exactly one response:
\* never more than one is sent, exactly one has been sent when the request
\* is done, and the token check either denies (which ends the request with
\* "Access Denied" and no later handler) or calls next(), never both, and
\* one of the two once a request under /api is past it.
C22_ExactlyOneResponse ==
    /\ Len(mw.sent) <= 1
    /\ mw.stage = "done" => Len(mw.sent) = 1
    /\ ~(Ran("tokenCheck.next") /\ Ran("tokenCheck.deny"))
    /\ (underApi(mw.path) /\ mw.stage \in {"timestamp", "route", "done"}) =>
          (Ran("tokenCheck.next") \/ Ran("tokenCheck.deny"))
    /\ Ran("tokenCheck.deny") =>
          /\ mw.stage = "done"
          /\ mw.sent = <<"Access Denied">>
          /\ mw.ran = <<"tokenCheck.deny">>

C22_Witness ==
    /\ mw.stage = "done"
    /\ mw.path = <<"api", "ghost">>
    /\ mw.token = Str("letMeIn")
    /\ mw.sent = <<"Access Denied">>
    /\ mwClock = MaxMwRequests

\* the answer a finished GET request must have got by the order of the
\* routes: the root hint for "/", the ghost text for "/ghost", the welcome
\* text with x for any other single segment x
RoutedInOrder(r) ==
    (r.stage = "done" /\ r.method = "GET") =>
        /\ r.path = <<>> => r.sent = <<RootText>>
        /\ r.path = <<"ghost">> => r.sent = <<GhostText>>
        /\ (Len(r.path) = 1 /\ r.path # <<"ghost">>) => r.sent = <<Welcome(r.path[1])>>

\* C27 as stated: in both demo servers GET / gets the root hint, GET /ghost
\* the ghost text and GET /x for any other single segment x the welcome
\* text with x.
C27_RoutesInRegistrationOrder ==
    RoutedInOrder(mw) /\ RoutedInOrder(demo)

\* the cases in which "/:name" does not answer a single-segment GET: the
\* segment cannot be decoded, or the token check denied the request
Undecodable(r) == Len(r.path) = 1 /\ ~decodes(r.path[1])

\* C27 as amended: as stated, except that a segment that is no valid
\* percent-encoding is answered 400 and that a request the /api token check
\* of the middleware demo server denied is answered "Access Denied".
C27_RoutesInRegistrationOrderAmended ==
    /\ Ran("tokenCheck.deny") \/ Undecodable(mw) \/ RoutedInOrder(mw)
    /\ Undecodable(demo) \/ RoutedInOrder(demo)
    /\ (mw.stage = "done" /\ mw.method = "GET" /\ Undecodable(mw) /\ ~Ran("tokenCheck.deny"))
          => mw.sent = <<"400">>
    /\ (demo.stage = "done" /\ demo.method = "GET" /\ Undecodable(demo))
          => demo.sent = <<"400">>
    /\ (mw.stage = "done" /\ Ran("tokenCheck.deny")) => mw.sent = <<"Access Denied">>

C27_Witness ==
    /\ mw.stage = "done" /\ mw.method = "GET"
    /\ mw.path = <<"ghost">> /\ mw.sent = <<GhostText>>
    /\ demo.stage = "done" /\ demo.method = "GET"
    /\ demo.path = <<"api">> /\ demo.sent = <<Welcome("api")>>

\* =============================== claims: the store connection (continued)
\* C29: in the chat server and the chat seed script "Connection sucessful"
\* is logged only in a step taken with the connection established, never
\* while the attempt is pending or after it failed.
C29_SuccessLoggedWhenConnected ==
    [][ \A s \in {"chatServer", "chatSeed"} :
           (Len(conn'[s].log) > Len(conn[s].log)
              /\ conn'[s].log[Len(conn'[s].log)] = "Connection sucessful")
           => conn[s].connect = "ok"
      ]_vars

\* ======================================================= claims: posts.js
\* C26: every stored Post carries a user reference that identifies a stored
\* User, and when both calls of a run have completed the two Posts of that
\* run reference the User that run's addUser stored.
C26_PostsReferenceUser ==
    /\ \A i \in DOMAIN pPosts : pPosts[i].user \in Ids(pUsers)
    /\ (au.pc = "done" /\ ap.pc = "done") =>
          \A i \in (Len(pPosts) - 1)..Len(pPosts) : pPosts[i].user = au.user1[1]._id

====
